---- MODULE Spec2Model ----
(***************************************************************************)
(* Course catalog service (src/app.py): a Flask application that keeps the  *)
(* course catalog in one JSON file, counts errors in a global, writes log   *)
(* records and opens OpenTelemetry spans around its handlers.               *)
(*                                                                          *)
(* A request is served by a thread that walks through its handler; the      *)
(* steps are cut where the handler touches the shared state (the catalog    *)
(* file, error_count, logged_ips).  Spec serves one request at a time,      *)
(* ConcSpec lets the threads interleave.                                    *)
(***************************************************************************)
EXTENDS Integers, Sequences, FiniteSets, TLC

\* ------------------------------------------------------------------ bounds
NThreads == 2
MaxRequests == 3
MaxConcRequests == 2

Threads == 1..NThreads

\* ------------------------------------------------------------ input domains
Codes == {"", "CS101"}
Names == {"", "Intro"}
Others == {"", "TBA"}
UrlCodes == {"CS101", "CS999"}
Addresses == {"10.0.0.1", "10.0.0.2"}

\* The dictionary add_course builds from the form: nine string fields.
Course(code, name, other) ==
    [code |-> code, name |-> name, instructor |-> other, semester |-> other,
     schedule |-> other, classroom |-> other, prerequisites |-> other,
     grading |-> other, description |-> other]

Courses == {Course(c, n, o) : c \in Codes, n \in Names, o \in Others}

NoCourse == Course("", "", "")

\* -------------------------------------------------------------- JSON text
\* The catalog file's text, as the tokens json.dump writes for a list of
\* objects: "[", each object, "," between two objects, "]".
LBracket == [kind |-> "[", obj |-> <<>>]
RBracket == [kind |-> "]", obj |-> <<>>]
Comma == [kind |-> ",", obj |-> <<>>]
Object(c) == [kind |-> "{}", obj |-> <<c>>]

RECURSIVE DumpItems(_)
DumpItems(cs) ==
    IF Len(cs) = 0 THEN <<>>
    ELSE IF Len(cs) = 1 THEN <<Object(cs[1])>>
    ELSE <<Object(cs[1]), Comma>> \o DumpItems(Tail(cs))

JsonDumpNoSeparator(cs) ==
    <<LBracket>> \o [i \in 1..Len(cs) |-> Object(cs[i])] \o <<RBracket>>

JsonDump(cs) == <<LBracket>> \o DumpItems(cs) \o <<RBracket>>

\* json.load: the text must be one complete array of objects; anything else
\* (an empty file, a cut-off array, text after the closing bracket) raises.
WellFormed(text) ==
    /\ Len(text) >= 2
    /\ text[1] = LBracket
    /\ text[Len(text)] = RBracket
    /\ \/ Len(text) = 2
       \/ /\ Len(text) % 2 = 1
          /\ \A i \in 2..(Len(text) - 1) :
                IF i % 2 = 0 THEN text[i].kind = "{}" ELSE text[i] = Comma

JsonLoad(text) ==
    IF WellFormed(text)
    THEN [ok |-> TRUE,
          value |-> [i \in 1..((Len(text) - 1) \div 2) |-> text[2 * i].obj[1]]]
    ELSE [ok |-> FALSE, value |-> <<>>]

\* ------------------------------------------------------------ catalog file
NoFile == [exists |-> FALSE, text |-> <<>>]

\* A write at offset 0 into an open file replaces the first Len(text) tokens
\* and leaves what lies beyond them.
Overwrite(old, text) == text \o SubSeq(old, Len(text) + 1, Len(old))

load_coursesNoExistsCheck(f) == JsonLoad(f.text)

load_courses(f) ==
    IF ~f.exists THEN [ok |-> TRUE, value |-> <<>>] ELSE JsonLoad(f.text)

\* ------------------------------------------------------------- validation
required_fields == <<"code", "name">>

MissingFieldsAllNine(d) ==
    LET Missing(field) == field \notin DOMAIN d \/ d[field] = ""
    IN  SelectSeq(<<"code", "name", "instructor", "semester", "schedule",
                    "classroom", "prerequisites", "grading", "description">>,
                  Missing)

MissingFields(d) ==
    LET Missing(field) == field \notin DOMAIN d \/ d[field] = ""
    IN  SelectSeq(required_fields, Missing)

\* ------------------------------------------------------------------ lookup
FindCourseLast(cs, code) ==
    IF \E i \in 1..Len(cs) : cs[i].code = code
    THEN LET i == CHOOSE j \in 1..Len(cs) :
                    /\ cs[j].code = code
                    /\ \A k \in (j + 1)..Len(cs) : cs[k].code # code
         IN  <<cs[i]>>
    ELSE <<>>

\* next((course for course in courses if course['code'] == code), None):
\* <<course>> for the first match, <<>> for None.
RECURSIVE FindCourse(_, _)
FindCourse(cs, code) ==
    IF Len(cs) = 0 THEN <<>>
    ELSE IF cs[1].code = code THEN <<cs[1]>>
    ELSE FindCourse(Tail(cs), code)

\* ------------------------------------------------------------------- state
VARIABLES
    file,                  \* COURSE_FILE on disk: [exists, text]
    error_count,           \* the global error_count
    catalog_access_count,  \* the global catalog_access_count
    logged_ips,            \* the global set logged_ips
    requests,              \* number of requests received so far
    pc,                    \* per thread: where its handler stands
    frame,                 \* per thread: the handler's arguments and locals
    out,                   \* per thread: what its request has emitted
    pre                    \* per thread: file and error_count when its request began

vars == <<file, error_count, catalog_access_count, logged_ips, requests,
          pc, frame, out, pre>>

globals == <<file, error_count, catalog_access_count, logged_ips>>

\* ------------------------------------------------- logs, spans and flashes
Msg(text, args) == [text |-> text, args |-> args]

NoOutput == [open |-> <<>>, spans |-> <<>>, logs |-> <<>>, flashes |-> <<>>,
             response |-> [status |-> 0, view |-> "", courses |-> <<>>]]

\* tracer.start_as_current_span(name, kind=...): the new span becomes current.
StartSpan(o, name, kind) ==
    [o EXCEPT !.open = Append(@, [name |-> name, kind |-> kind,
                                   attributes |-> <<>>, events |-> <<>>])]

\* span.set_attribute / span.add_event on the current span.
SetAttribute(o, key, value) ==
    [o EXCEPT !.open[Len(o.open)].attributes = Append(@, <<key, value>>)]

AddEvent(o, msg) ==
    [o EXCEPT !.open[Len(o.open)].events = Append(@, msg)]

EndSpanLeak(o) == o

\* Leaving the with block: the current span ends and goes to the processor.
EndSpan(o) ==
    [o EXCEPT !.spans = Append(@, o.open[Len(o.open)]),
              !.open = SubSeq(@, 1, Len(o.open) - 1)]

\* An exception leaving the with block is recorded on the span, which ends.
EndSpanRaising(o, exc) == EndSpan(AddEvent(o, Msg("exception", <<exc>>)))

Log(o, level, msg) ==
    [o EXCEPT !.logs = Append(@, [level |-> level, message |-> msg])]

Flash(o, msg, category) ==
    [o EXCEPT !.flashes = Append(@, [message |-> msg, category |-> category])]

Respond(o, status, view, cs) ==
    [o EXCEPT !.response = [status |-> status, view |-> view, courses |-> cs]]

\* ------------------------------------------------------------ request start
NewFrame(op) ==
    [op |-> op, method |-> "GET", user_ip |-> "", code |-> "", data |-> NoCourse,
     courses |-> <<>>, missing_fields |-> <<>>, e |-> "none", tmp |-> 0]

\* A thread takes the next request; limit caps the number of requests served.
Accept(t, limit) ==
    /\ pc[t] = "idle"
    /\ requests < limit
    /\ requests' = requests + 1
    /\ pre' = [pre EXCEPT ![t] = [file |-> file, error_count |-> error_count]]

\* The process starts with no catalog file or with one left by an earlier
\* run; the smallest such file holds the empty list.
Init ==
    /\ file \in {NoFile, [exists |-> TRUE, text |-> JsonDump(<<>>)]}
    /\ error_count = 0
    /\ catalog_access_count = 0
    /\ logged_ips = {}
    /\ requests = 0
    /\ pc = [t \in Threads |-> "idle"]
    /\ frame = [t \in Threads |-> NewFrame("none")]
    /\ out = [t \in Threads |-> NoOutput]
    /\ pre = [t \in Threads |-> [file |-> NoFile, error_count |-> 0]]

\* ------------------------------------------------------------------- index
index(t, limit) ==
    /\ Accept(t, limit)
    /\ \E ip \in Addresses :
        /\ frame' = [frame EXCEPT ![t] = [NewFrame("index") EXCEPT !.user_ip = ip]]
        /\ pc' = [pc EXCEPT ![t] =
                    IF ip \notin logged_ips THEN "index_log" ELSE "index_span"]
    /\ out' = [out EXCEPT ![t] = NoOutput]
    /\ UNCHANGED globals

index_log(t) ==
    /\ pc[t] = "index_log"
    /\ out' = [out EXCEPT ![t] =
                 Log(@, "INFO", Msg("User IP", <<frame[t].user_ip>>))]
    /\ logged_ips' = logged_ips \cup {frame[t].user_ip}
    /\ pc' = [pc EXCEPT ![t] = "index_span"]
    /\ UNCHANGED <<file, error_count, catalog_access_count, requests, frame, pre>>

index_span(t) ==
    /\ pc[t] = "index_span"
    /\ out' = [out EXCEPT ![t] =
                 EndSpan(Respond(
                     SetAttribute(StartSpan(@, "index", "SERVER"),
                                  "http.client_ip", frame[t].user_ip),
                     200, "index.html", <<>>))]
    /\ pc' = [pc EXCEPT ![t] = "idle"]
    /\ UNCHANGED <<globals, requests, frame, pre>>

\* ---------------------------------------------------------- course_catalog
\* The increment of catalog_access_count and the opening of the span, up to
\* the load; the counter is bumped in one step.
course_catalog(t, limit) ==
    /\ Accept(t, limit)
    /\ catalog_access_count' = catalog_access_count + 1
    /\ frame' = [frame EXCEPT ![t] = NewFrame("course_catalog")]
    /\ out' = [out EXCEPT ![t] =
                 AddEvent(SetAttribute(SetAttribute(SetAttribute(
                     StartSpan(NoOutput, "course_catalog", "SERVER"),
                     "http.method", "GET"),
                     "http.url", "/catalog"),
                     "catalog.access_count", catalog_access_count + 1),
                     Msg("Loading courses from file", <<>>))]
    /\ pc' = [pc EXCEPT ![t] = "catalog_load"]
    /\ UNCHANGED <<file, error_count, logged_ips>>

catalog_load(t) ==
    /\ pc[t] = "catalog_load"
    /\ LET loaded == load_courses(file)
       IN  IF loaded.ok
           THEN /\ frame' = [frame EXCEPT ![t].courses = loaded.value]
                /\ out' = [out EXCEPT ![t] =
                     EndSpan(Respond(Log(AddEvent(SetAttribute(@,
                         "course.count", Len(loaded.value)),
                         Msg("Rendering course catalog template", <<>>)),
                         "INFO", Msg("Course catalog page rendered successfully", <<>>)),
                         200, "course_catalog.html", loaded.value))]
           ELSE /\ frame' = [frame EXCEPT ![t].e = "read"]
                /\ out' = [out EXCEPT ![t] =
                     Respond(EndSpanRaising(@, "JSONDecodeError"), 500, "", <<>>)]
    /\ pc' = [pc EXCEPT ![t] = "idle"]
    /\ UNCHANGED <<globals, requests, pre>>

\* --------------------------------------------------------------- add_course
\* GET /add_course: the form is rendered, no span is opened.
add_course_get(t, limit) ==
    /\ Accept(t, limit)
    /\ frame' = [frame EXCEPT ![t] = NewFrame("add_course_get")]
    /\ out' = [out EXCEPT ![t] = Respond(NoOutput, 200, "add_course.html", <<>>)]
    /\ UNCHANGED <<globals, pc>>

\* POST /add_course with a form that lacks one of the nine keys:
\* request.form[...] raises inside the with block, the request ends with 400.
add_course_bad_form(t, limit) ==
    /\ Accept(t, limit)
    /\ \E ip \in Addresses :
        /\ frame' = [frame EXCEPT ![t] =
                       [NewFrame("add_course") EXCEPT !.method = "POST",
                                                      !.user_ip = ip, !.e = "form"]]
        /\ out' = [out EXCEPT ![t] =
                     Respond(EndSpanRaising(AddEvent(SetAttribute(SetAttribute(
                         SetAttribute(StartSpan(NoOutput, "add_course", "SERVER"),
                         "http.method", "POST"),
                         "http.url", "/add_course"),
                         "http.client_ip", ip),
                         Msg("Extracting course data from form", <<>>)),
                         "BadRequestKeyError"), 400, "", <<>>)]
    /\ UNCHANGED <<globals, pc>>

\* POST /add_course up to the call of save_courses and its first two lines.
add_course(t, limit) ==
    /\ Accept(t, limit)
    /\ \E ip \in Addresses, course \in Courses :
        /\ frame' = [frame EXCEPT ![t] =
                       [NewFrame("add_course") EXCEPT
                            !.method = "POST", !.user_ip = ip, !.data = course,
                            !.missing_fields = MissingFields(course)]]
        /\ out' = [out EXCEPT ![t] =
                     AddEvent(SetAttribute(SetAttribute(AddEvent(SetAttribute(
                         SetAttribute(SetAttribute(
                         StartSpan(NoOutput, "add_course", "SERVER"),
                         "http.method", "POST"),
                         "http.url", "/add_course"),
                         "http.client_ip", ip),
                         Msg("Extracting course data from form", <<>>)),
                         "course.code", course.code),
                         "course.name", course.name),
                         Msg("Saving course data to file", <<>>))]
    /\ pc' = [pc EXCEPT ![t] = "save_load"]
    /\ UNCHANGED globals

save_loadReplacing(t) ==
    /\ pc[t] = "save_load"
    /\ LET loaded == load_courses(file)
           others == SelectSeq(loaded.value,
                               LAMBDA c : c.code # frame[t].data.code)
       IN  IF loaded.ok
           THEN /\ frame' = [frame EXCEPT ![t].courses =
                                Append(others, frame[t].data)]
                /\ pc' = [pc EXCEPT ![t] = "save_open"]
                /\ out' = out
           ELSE /\ frame' = [frame EXCEPT ![t].e = "read"]
                /\ pc' = [pc EXCEPT ![t] = "idle"]
                /\ out' = [out EXCEPT ![t] =
                     Respond(EndSpanRaising(@, "JSONDecodeError"), 500, "", <<>>)]
    /\ UNCHANGED <<globals, requests, pre>>

\* courses = load_courses(); courses.append(data).  The load is outside the
\* try block: what it raises leaves save_courses and add_course.
save_load(t) ==
    /\ pc[t] = "save_load"
    /\ LET loaded == load_courses(file)
       IN  IF loaded.ok
           THEN /\ frame' = [frame EXCEPT ![t].courses =
                                Append(loaded.value, frame[t].data)]
                /\ pc' = [pc EXCEPT ![t] = "save_open"]
                /\ out' = out
           ELSE /\ frame' = [frame EXCEPT ![t].e = "read"]
                /\ pc' = [pc EXCEPT ![t] = "idle"]
                /\ out' = [out EXCEPT ![t] =
                     Respond(EndSpanRaising(@, "JSONDecodeError"), 500, "", <<>>)]
    /\ UNCHANGED <<globals, requests, pre>>

\* open(COURSE_FILE, 'w'): the file is created or truncated, or open raises
\* and the file is as it was.
save_open(t) ==
    /\ pc[t] = "save_open"
    /\ \/ /\ file' = [exists |-> TRUE, text |-> <<>>]
          /\ pc' = [pc EXCEPT ![t] = "save_dump"]
          /\ frame' = frame
       \/ /\ file' = file
          /\ pc' = [pc EXCEPT ![t] = "except_read"]
          /\ frame' = [frame EXCEPT ![t].e = "open"]
    /\ UNCHANGED <<error_count, catalog_access_count, logged_ips, requests, out, pre>>

\* json.dump(courses, file) and the close of the file: the whole text is
\* written from offset 0, or the write raises after part of it.
save_dump(t) ==
    /\ pc[t] = "save_dump"
    /\ LET text == JsonDump(frame[t].courses)
       IN  \/ /\ file' = [exists |-> TRUE, text |-> Overwrite(file.text, text)]
              /\ out' = [out EXCEPT ![t] =
                           Log(@, "INFO", Msg("Course added",
                               <<frame[t].data.name, frame[t].data.code>>))]
              /\ pc' = [pc EXCEPT ![t] = "validate"]
              /\ frame' = frame
           \/ /\ \E k \in 0..(Len(text) - 1) :
                    file' = [exists |-> TRUE,
                             text |-> Overwrite(file.text, SubSeq(text, 1, k))]
              /\ out' = out
              /\ pc' = [pc EXCEPT ![t] = "except_read"]
              /\ frame' = [frame EXCEPT ![t].e = "dump"]
    /\ UNCHANGED <<error_count, catalog_access_count, logged_ips, requests, pre>>

\* error_count+=1 reads the global, adds one and stores the sum.
except_read(t) ==
    /\ pc[t] = "except_read"
    /\ frame' = [frame EXCEPT ![t].tmp = error_count]
    /\ pc' = [pc EXCEPT ![t] = "except_write"]
    /\ UNCHANGED <<globals, requests, out, pre>>

except_write(t) ==
    /\ pc[t] = "except_write"
    /\ error_count' = frame[t].tmp + 1
    /\ out' = [out EXCEPT ![t] =
                 Log(@, "ERROR", Msg("Error saving course data", <<frame[t].e>>))]
    /\ pc' = [pc EXCEPT ![t] = "except_span"]
    /\ UNCHANGED <<file, catalog_access_count, logged_ips, requests, frame, pre>>

except_spanNotEnded(t) ==
    /\ pc[t] = "except_span"
    /\ out' = [out EXCEPT ![t] =
                 AddEvent(SetAttribute(SetAttribute(
                     StartSpan(@, "save_courses_error", "INTERNAL"),
                     "error.type", "FileWriteError"),
                     "error.count", error_count),
                     Msg("Error saving course data", <<frame[t].e>>))]
    /\ pc' = [pc EXCEPT ![t] = "validate"]
    /\ UNCHANGED <<globals, requests, frame, pre>>

\* The save_courses_error span of the except block; error.count is the
\* value the global has when the attribute is set.
except_span(t) ==
    /\ pc[t] = "except_span"
    /\ out' = [out EXCEPT ![t] =
                 EndSpan(AddEvent(SetAttribute(SetAttribute(
                     StartSpan(@, "save_courses_error", "INTERNAL"),
                     "error.type", "FileWriteError"),
                     "error.count", error_count),
                     Msg("Error saving course data", <<frame[t].e>>)))]
    /\ pc' = [pc EXCEPT ![t] = "validate"]
    /\ UNCHANGED <<globals, requests, frame, pre>>

\* if missing_fields: log and flash the error; otherwise flash the success
\* message, return to add_course, which redirects and leaves its with block.
validate(t) ==
    /\ pc[t] = "validate"
    /\ IF frame[t].missing_fields # <<>>
       THEN /\ out' = [out EXCEPT ![t] =
                        Flash(Log(@, "ERROR", Msg("Missing required fields",
                                                  frame[t].missing_fields)),
                              Msg("Missing required fields", frame[t].missing_fields),
                              "error")]
            /\ pc' = [pc EXCEPT ![t] = "missing_read"]
       ELSE /\ out' = [out EXCEPT ![t] =
                        Respond(EndSpan(Flash(@, Msg("Course added successfully",
                                                     <<frame[t].data.name>>), "success")),
                                302, "course_catalog", <<>>)]
            /\ pc' = [pc EXCEPT ![t] = "idle"]
    /\ UNCHANGED <<globals, requests, frame, pre>>

missing_read(t) ==
    /\ pc[t] = "missing_read"
    /\ frame' = [frame EXCEPT ![t].tmp = error_count]
    /\ pc' = [pc EXCEPT ![t] = "missing_write"]
    /\ UNCHANGED <<globals, requests, out, pre>>

missing_writeNoCount(t) ==
    /\ pc[t] = "missing_write"
    /\ error_count' = frame[t].tmp
    /\ pc' = [pc EXCEPT ![t] = "missing_span"]
    /\ UNCHANGED <<file, catalog_access_count, logged_ips, requests, frame, out, pre>>

missing_write(t) ==
    /\ pc[t] = "missing_write"
    /\ error_count' = frame[t].tmp + 1
    /\ pc' = [pc EXCEPT ![t] = "missing_span"]
    /\ UNCHANGED <<file, catalog_access_count, logged_ips, requests, frame, out, pre>>

\* The save_courses_error span of the missing-fields branch, the return and
\* the end of add_course.
missing_span(t) ==
    /\ pc[t] = "missing_span"
    /\ out' = [out EXCEPT ![t] =
                 Respond(EndSpan(EndSpan(AddEvent(SetAttribute(SetAttribute(
                     StartSpan(@, "save_courses_error", "INTERNAL"),
                     "error.type", "MissingFields"),
                     "error.count", error_count),
                     Msg("Missing required fields", frame[t].missing_fields)))),
                     302, "course_catalog", <<>>)]
    /\ pc' = [pc EXCEPT ![t] = "idle"]
    /\ UNCHANGED <<globals, requests, frame, pre>>

\* ----------------------------------------------------------- course_details
course_details(t, limit) ==
    /\ Accept(t, limit)
    /\ \E ip \in Addresses, code \in UrlCodes :
        /\ frame' = [frame EXCEPT ![t] =
                       [NewFrame("course_details") EXCEPT !.user_ip = ip, !.code = code]]
        /\ out' = [out EXCEPT ![t] =
                     AddEvent(SetAttribute(SetAttribute(SetAttribute(
                         StartSpan(NoOutput, "course_details", "SERVER"),
                         "http.method", "GET"),
                         "http.url", "/course/<code>"),
                         "http.client_ip", ip),
                         Msg("Loading courses from file", <<>>))]
    /\ pc' = [pc EXCEPT ![t] = "details_load"]
    /\ UNCHANGED globals

details_loadCountsMiss(t) ==
    /\ pc[t] = "details_load"
    /\ LET loaded == load_courses(file)
           code == frame[t].code
           course == FindCourse(loaded.value, code)
           searched(o) == AddEvent(SetAttribute(o, "course.count", Len(loaded.value)),
                                   Msg("Searching for course with code", <<code>>))
       IN  IF ~loaded.ok
           THEN /\ frame' = [frame EXCEPT ![t].e = "read"]
                /\ out' = [out EXCEPT ![t] =
                     Respond(EndSpanRaising(@, "JSONDecodeError"), 500, "", <<>>)]
                /\ error_count' = error_count
           ELSE /\ frame' = [frame EXCEPT ![t].courses = loaded.value]
                /\ IF course = <<>>
                   THEN /\ out' = [out EXCEPT ![t] =
                             Respond(EndSpan(Flash(searched(@),
                                 Msg("No course found with code", <<code>>), "error")),
                                 302, "course_catalog", <<>>)]
                        /\ error_count' = error_count + 1
                   ELSE /\ out' = [out EXCEPT ![t] =
                             Respond(EndSpan(AddEvent(SetAttribute(SetAttribute(
                                 searched(@),
                                 "course.code", course[1].code),
                                 "course.name", course[1].name),
                                 Msg("Rendering course details template", <<>>))),
                                 200, "course_details.html", course)]
                        /\ error_count' = error_count
    /\ pc' = [pc EXCEPT ![t] = "idle"]
    /\ UNCHANGED <<file, catalog_access_count, logged_ips, requests, pre>>

\* load_courses(), the search and the answer: the not-found flash with the
\* redirect, or the course rendered.
details_load(t) ==
    /\ pc[t] = "details_load"
    /\ LET loaded == load_courses(file)
           code == frame[t].code
           course == FindCourse(loaded.value, code)
           searched(o) == AddEvent(SetAttribute(o, "course.count", Len(loaded.value)),
                                   Msg("Searching for course with code", <<code>>))
       IN  IF ~loaded.ok
           THEN /\ frame' = [frame EXCEPT ![t].e = "read"]
                /\ out' = [out EXCEPT ![t] =
                     Respond(EndSpanRaising(@, "JSONDecodeError"), 500, "", <<>>)]
           ELSE /\ frame' = [frame EXCEPT ![t].courses = loaded.value]
                /\ IF course = <<>>
                   THEN out' = [out EXCEPT ![t] =
                          Respond(EndSpan(Flash(searched(@),
                              Msg("No course found with code", <<code>>), "error")),
                              302, "course_catalog", <<>>)]
                   ELSE out' = [out EXCEPT ![t] =
                          Respond(EndSpan(AddEvent(SetAttribute(SetAttribute(
                              searched(@),
                              "course.code", course[1].code),
                              "course.name", course[1].name),
                              Msg("Rendering course details template", <<>>))),
                              200, "course_details.html", course)]
    /\ pc' = [pc EXCEPT ![t] = "idle"]
    /\ UNCHANGED <<globals, requests, pre>>

\* ------------------------------------------- manual_trace, auto_instrumented
manual_trace(t, limit) ==
    /\ Accept(t, limit)
    /\ \E ip \in Addresses :
        /\ frame' = [frame EXCEPT ![t] =
                       [NewFrame("manual_trace") EXCEPT !.user_ip = ip]]
        /\ out' = [out EXCEPT ![t] =
                     Respond(EndSpan(AddEvent(SetAttribute(SetAttribute(SetAttribute(
                         StartSpan(NoOutput, "manual-span", "SERVER"),
                         "http.method", "GET"),
                         "http.url", "/manual-trace"),
                         "http.client_ip", ip),
                         Msg("Processing request", <<>>))),
                         200, "Manual trace recorded!", <<>>)]
    /\ UNCHANGED <<globals, pc>>

auto_instrumented(t, limit) ==
    /\ Accept(t, limit)
    /\ frame' = [frame EXCEPT ![t] = NewFrame("auto_instrumented")]
    /\ out' = [out EXCEPT ![t] =
                 Respond(NoOutput, 200, "This route is auto-instrumented!", <<>>)]
    /\ UNCHANGED <<globals, pc>>

\* -------------------------------------------------------------------- specs
Step(t, limit) ==
    \/ index(t, limit)
    \/ index_log(t)
    \/ index_span(t)
    \/ course_catalog(t, limit)
    \/ catalog_load(t)
    \/ add_course_get(t, limit)
    \/ add_course_bad_form(t, limit)
    \/ add_course(t, limit)
    \/ save_load(t)
    \/ save_open(t)
    \/ save_dump(t)
    \/ except_read(t)
    \/ except_write(t)
    \/ except_span(t)
    \/ validate(t)
    \/ missing_read(t)
    \/ missing_write(t)
    \/ missing_span(t)
    \/ course_details(t, limit)
    \/ details_load(t)
    \/ manual_trace(t, limit)
    \/ auto_instrumented(t, limit)

\* One request at a time: a single thread serves them all.
Next == \E t \in {1} : Step(t, MaxRequests)

\* The threaded server: requests are served concurrently.
ConcNext == \E t \in Threads : Step(t, MaxConcRequests)

Spec == Init /\ [][Next]_vars

\* A fresh deployment: no catalog file yet.
ConcInit == Init /\ file = NoFile

ConcSpec == ConcInit /\ [][ConcNext]_vars

\* A handler that has started runs on: the steps of thread t other than
\* taking a new request.
Run(t) == Step(t, 0)

\* One request at a time, and the server does not stop in the middle of a
\* handler.
FairSpec == Spec /\ \A t \in Threads : WF_vars(Run(t))

\* ------------------------------------------------------------------- claims
\* Thread t has completed a request of handler op.
Done(t, op) == pc[t] = "idle" /\ frame[t].op = op

Valid(d) == d.code # "" /\ d.name # ""

WriteFailed(t) == frame[t].e \in {"open", "dump"}

\* The catalog load() returns for the file as it was when t's request began,
\* and for the file as it is now.
Before(t) == load_courses(pre[t].file)

After == load_courses(file)

ErrorSpans(t) ==
    SelectSeq(out[t].spans, LAMBDA s : s.name = "save_courses_error")

HasLog(t, level, text) ==
    \E i \in 1..Len(out[t].logs) :
        out[t].logs[i].level = level /\ out[t].logs[i].message.text = text

HasFlash(t, category) ==
    \E i \in 1..Len(out[t].flashes) : out[t].flashes[i].category = category

\* C1: after save_courses(c) of a valid course c whose write succeeded,
\* load_courses() returns the catalog it returned before the save with c
\* appended: one element longer, c last, the earlier elements unchanged.
C1_SaveThenLoad ==
    \A t \in Threads :
        (Done(t, "add_course") /\ frame[t].e = "none" /\ Valid(frame[t].data)) =>
            /\ Before(t).ok
            /\ After.ok
            /\ Len(After.value) = Len(Before(t).value) + 1
            /\ After.value[Len(After.value)] = frame[t].data
            /\ SubSeq(After.value, 1, Len(Before(t).value)) = Before(t).value

C1_Witness ==
    \E t \in Threads :
        /\ Done(t, "add_course") /\ frame[t].e = "none" /\ Valid(frame[t].data)
        /\ Len(Before(t).value) = 2
        /\ frame[t].data.instructor = "TBA"

\* C2: when add_course requests interleave and each completes without a
\* write fault, no update is lost: the persisted catalog holds every
\* submitted course next to what it held before (nothing, on a fresh system).
C2_NoLostUpdate ==
    ( /\ \A t \in Threads : Done(t, "add_course") /\ frame[t].e = "none"
      /\ requests = NThreads ) =>
        /\ After.ok
        /\ Len(After.value) = NThreads
        /\ \A t \in Threads :
              \E i \in 1..Len(After.value) : After.value[i] = frame[t].data

\* C3: error_count never decreases and is never reset; a request changes it
\* by one per failed validation plus one per failed persistence (add_course)
\* and not at all in the other handlers.
C3_ErrorCounter ==
    \A t \in Threads :
        (pc[t] = "idle" /\ frame[t].op # "none") =>
            /\ error_count >= pre[t].error_count
            /\ IF frame[t].op = "add_course"
               THEN error_count = pre[t].error_count
                       + (IF frame[t].missing_fields # <<>> THEN 1 ELSE 0)
                       + (IF frame[t].e \in {"open", "dump", "read"} THEN 1 ELSE 0)
               ELSE error_count = pre[t].error_count

\* C4: the increments of error_count are atomic across concurrent requests:
\* when all requests are over the counter equals the number of error spans,
\* and their error.count attributes are the distinct values 1..k.
C4_AtomicIncrements ==
    ( /\ \A t \in Threads : pc[t] = "idle"
      /\ requests = Cardinality({t \in Threads : frame[t].op # "none"}) ) =>
        LET recorded == UNION {{<<t, i>> : i \in 1..Len(ErrorSpans(t))} : t \in Threads}
            count(r) == ErrorSpans(r[1])[r[2]].attributes[2][2]
            k == Cardinality(recorded)
        IN  /\ error_count = k
            /\ {count(r) : r \in recorded} = 1..k

\* C5: an add_course whose write failed counts one error, logs it, records
\* it on a span, and leaves a catalog that loads as the one before the
\* request or as that one with the new course appended.
C5_FailedWriteLeavesCatalog ==
    \A t \in Threads :
        (Done(t, "add_course") /\ WriteFailed(t) /\ Valid(frame[t].data)) =>
            /\ error_count = pre[t].error_count + 1
            /\ HasLog(t, "ERROR", "Error saving course data")
            /\ \E i \in 1..Len(ErrorSpans(t)) :
                  /\ ErrorSpans(t)[i].attributes[1] = <<"error.type", "FileWriteError">>
                  /\ ErrorSpans(t)[i].events # <<>>
            /\ After.ok
            /\ After.value \in {Before(t).value, Append(Before(t).value, frame[t].data)}

ServerSpans(t) == SelectSeq(out[t].spans, LAMBDA s : s.kind = "SERVER")

SpanOps == {"index", "course_catalog", "add_course", "course_details"}

C7_GetCourse ==
    \A t \in Threads :
        (Done(t, "course_details") /\ frame[t].e # "read") =>
            LET cat == Before(t).value
                hits == {i \in 1..Len(cat) : cat[i].code = frame[t].code}
                r == out[t].response
            IN  /\ Before(t).ok
                /\ IF hits = {}
                   THEN /\ r.status = 302 /\ r.courses = <<>>
                        /\ HasFlash(t, "error")
                   ELSE /\ r.status = 200 /\ r.view = "course_details.html"
                        /\ r.courses = <<cat[CHOOSE i \in hits : \A j \in hits : i <= j]>>
                        /\ ~HasFlash(t, "error")

C7_Witness ==
    \E t \in Threads :
        /\ Done(t, "course_details")
        /\ Len(Before(t).value) = 2
        /\ Before(t).value[1].code = frame[t].code
        /\ Before(t).value[2].code = frame[t].code
        /\ Before(t).value[1] # Before(t).value[2]

\* No catalog file, or a file holding the empty list.
EmptyStorage(f) == ~f.exists \/ f.text = JsonDump(<<>>)

C9_NoSuccessAfterFailedWrite ==
    \A t \in Threads :
        (Done(t, "add_course") /\ WriteFailed(t)) => ~HasFlash(t, "success")

Expected(d) ==
    (IF d.code = "" THEN <<"code">> ELSE <<>>)
        \o (IF d.name = "" THEN <<"name">> ELSE <<>>)

\* C10: save_courses reports as missing exactly those of code and name that
\* are empty; with code and name given and the other seven fields empty an
\* add_course on an empty catalog succeeds: the catalog then holds one
\* course, error_count is unchanged and the success flash is produced.
C10_MinimalPolicy ==
    \A t \in Threads :
        /\ (frame[t].op = "add_course" /\ frame[t].e # "form") =>
              frame[t].missing_fields = Expected(frame[t].data)
        /\ ( /\ Done(t, "add_course") /\ frame[t].e = "none"
             /\ Valid(frame[t].data) /\ frame[t].data.instructor = ""
             /\ EmptyStorage(pre[t].file) ) =>
              /\ After.ok
              /\ Len(After.value) = 1
              /\ error_count = pre[t].error_count
              /\ HasFlash(t, "success")
              /\ ~HasFlash(t, "error")
              /\ ErrorSpans(t) = <<>>

C10_Witness ==
    \E t \in Threads :
        /\ Done(t, "add_course") /\ frame[t].e = "none"
        /\ frame[t].data = Course("CS101", "Intro", "")
        /\ ~pre[t].file.exists
        /\ Len(After.value) = 1


\* C11: course_catalog and course_details leave the persisted catalog and
\* error_count as they found them on every branch; a course_details for a
\* code the catalog does not hold answers not-found (error flash, redirect).
C11_LookupsChangeNothing ==
    \A t \in Threads :
        (pc[t] = "idle" /\ frame[t].op \in {"course_catalog", "course_details"}) =>
            /\ file = pre[t].file
            /\ error_count = pre[t].error_count
            /\ ( /\ frame[t].op = "course_details" /\ Before(t).ok
                 /\ \A i \in 1..Len(Before(t).value) :
                       Before(t).value[i].code # frame[t].code ) =>
                  /\ out[t].response.status = 302
                  /\ out[t].response.courses = <<>>
                  /\ HasFlash(t, "error")

C11_Witness ==
    \E t \in Threads :
        /\ Done(t, "course_details")
        /\ frame[t].code = "CS999"
        /\ Len(Before(t).value) = 1
        /\ Before(t).value[1].code = "CS101"
        /\ HasFlash(t, "error")


\* C12: every add_course with a missing required field and every
\* course_details that finds no course shows the caller an error message and
\* adds one to error_count.
C12_ErrorsShownAndCounted ==
    \A t \in Threads :
        /\ (Done(t, "add_course") /\ frame[t].method = "POST" /\ frame[t].e # "form"
              /\ ~Valid(frame[t].data)) =>
                /\ HasFlash(t, "error")
                /\ error_count >= pre[t].error_count + 1
        /\ (Done(t, "course_details") /\ Before(t).ok
              /\ FindCourse(Before(t).value, frame[t].code) = <<>>) =>
                /\ HasFlash(t, "error")
                /\ error_count = pre[t].error_count + 1


\* C13: a catalog file that is present but unreadable makes load_courses()
\* fail, and an add_course that meets this read failure adds one to
\* error_count, writes an error log record and leaves the file unchanged.
C13_ReadFailureHandled ==
    /\ (file.exists /\ ~WellFormed(file.text)) => ~After.ok
    /\ \A t \in Threads :
        (Done(t, "add_course") /\ frame[t].method = "POST" /\ frame[t].e # "form"
            /\ ~Before(t).ok) =>
            /\ frame[t].e = "read"
            /\ error_count = pre[t].error_count + 1
            /\ \E i \in 1..Len(out[t].logs) : out[t].logs[i].level = "ERROR"
            /\ file = pre[t].file


\* C14: served one request at a time and without a write fault, every
\* request leaves the persisted catalog as it found it, except an add_course
\* that reaches the write, which leaves the catalog it found with its one
\* course added at the end; a course whose code is already in the catalog
\* is added behind the existing one.
C14_AppendOnly ==
    \A t \in Threads :
        (pc[t] = "idle" /\ frame[t].op # "none" /\ Before(t).ok /\ ~WriteFailed(t)) =>
            IF frame[t].op = "add_course" /\ frame[t].method = "POST"
                 /\ frame[t].e = "none"
            THEN /\ After.ok
                 /\ After.value = Append(Before(t).value, frame[t].data)
            ELSE file = pre[t].file

C14_Witness ==
    \E t \in Threads :
        /\ Done(t, "add_course")
        /\ frame[t].e = "none"
        /\ frame[t].data.code = "CS101"
        /\ Len(Before(t).value) = 1
        /\ Before(t).value[1].code = "CS101"
        /\ Before(t).value[1] # frame[t].data
        /\ After.value = <<Before(t).value[1], frame[t].data>>


\* C15: an add_course whose code or name is empty and whose write succeeds
\* has appended the incomplete course to the persisted catalog, and has
\* reported the missing fields (error log record, error flash, error_count
\* plus one, a save_courses_error span of type MissingFields with its event)
\* without flashing success.
C15_InvalidCourseStillSaved ==
    \A t \in Threads :
        (Done(t, "add_course") /\ frame[t].method = "POST" /\ frame[t].e = "none"
            /\ ~Valid(frame[t].data)) =>
            /\ After.ok
            /\ After.value = Append(Before(t).value, frame[t].data)
            /\ HasLog(t, "ERROR", "Missing required fields")
            /\ HasFlash(t, "error")
            /\ ~HasFlash(t, "success")
            /\ error_count = pre[t].error_count + 1
            /\ Len(ErrorSpans(t)) = 1
            /\ ErrorSpans(t)[1].attributes[1] = <<"error.type", "MissingFields">>
            /\ ErrorSpans(t)[1].events =
                  <<Msg("Missing required fields", Expected(frame[t].data))>>

C15_Witness ==
    \E t \in Threads :
        /\ Done(t, "add_course")
        /\ frame[t].method = "POST"
        /\ frame[t].e = "none"
        /\ frame[t].data.code = ""
        /\ frame[t].data.name = "Intro"
        /\ After.value = <<frame[t].data>>
        /\ HasFlash(t, "error")


IsPrefix(s, r) == Len(s) <= Len(r) /\ SubSeq(r, 1, Len(s)) = s

\* While a handler runs its operation span has not ended and at most that
\* span is open between two steps; once the handler is done no span is open,
\* the operation span was the last to end, and every save_courses_error
\* span ended before it.
SpansNested ==
    \A t \in Threads :
        /\ Len(out[t].open) <= 1
        /\ out[t].open # <<>> => out[t].open[1].kind = "SERVER"
        /\ pc[t] # "idle" => ServerSpans(t) = <<>>
        /\ pc[t] \notin {"idle", "index_log", "index_span"} => Len(out[t].open) = 1
        /\ pc[t] = "idle" =>
              /\ out[t].open = <<>>
              /\ \A i \in 1..Len(out[t].spans) :
                    out[t].spans[i].kind = "SERVER" <=> i = Len(out[t].spans)

\* A span that has ended is never changed by a later step of its handler, a
\* save_courses_error span ends only in a step taken with the add_course
\* span open, and a step changes the spans of one thread only: the one that
\* takes it.
SpansKept ==
    \A t \in Threads :
        /\ pc[t] # "idle" => IsPrefix(out[t].spans, out'[t].spans)
        /\ (pc[t] # "idle" /\ Len(ErrorSpans(t))' > Len(ErrorSpans(t))) =>
              /\ Len(out[t].open) = 1
              /\ out[t].open[1].name = "add_course"
        /\ out'[t] # out[t] =>
              /\ pc[t] # "idle" \/ requests' = requests + 1
              /\ \A u \in Threads \ {t} :
                    pc'[u] = pc[u] /\ frame'[u] = frame[u] /\ out'[u] = out[u]

\* C16: every handler that has started comes to its end on every branch;
\* the operation span ends only there, after everything recorded on it; a
\* save_courses_error span starts and ends while the add_course span is
\* open; ended spans are not changed and no thread changes another's spans.
C16_CompletesWithNestedSpans ==
    /\ \A t \in Threads : (pc[t] # "idle") ~> (pc[t] = "idle")
    /\ []SpansNested
    /\ [][SpansKept]_vars

C16_Witness ==
    \E t \in Threads :
        /\ pc[t] = "validate"
        /\ Len(ErrorSpans(t)) = 1
        /\ Len(out[t].open) = 1
        /\ out[t].open[1].name = "add_course"


\* The threads whose request wrote the "User IP" record for address a.
LoggedBy(a) ==
    {t \in Threads : \E i \in 1..Len(out[t].logs) :
        out[t].logs[i] = [level |-> "INFO", message |-> Msg("User IP", <<a>>)]}

====
